---- MODULE Spec2Model ----
(***************************************************************************)
(* Model of app.py, the "Ella Dashboard": three Google-Forms response tabs *)
(* (streams Recep, Tech, Wax-Hub) are fetched, their headers mapped to     *)
(* internal column names, their cells coerced, the per-stream frames       *)
(* concatenated and the result filtered and summed for display.            *)
(*                                                                         *)
(* Text is modelled as a sequence of characters, one character per         *)
(* element.  A character is a one-letter string; the characters TLA+       *)
(* strings cannot hold are named: "APOS" is the straight apostrophe ',     *)
(* "RSQUO" the curly apostrophe U+2019, "BACKTICK" the backtick and        *)
(* "EMDASH" the dash U+2014.                                               *)
(***************************************************************************)
EXTENDS Integers, Sequences, FiniteSets, TLC

VARIABLES pc, i, sheets, df, dfs, errors, df_all, d1, d2, report, arg, ret

vars == <<pc, i, sheets, df, dfs, errors, df_all, d1, d2, report, arg, ret>>

loadVars == <<i, sheets, df, dfs, errors, df_all, d1, d2, report>>

(***************************************************************************)
(* Bounds of the model.                                                    *)
(***************************************************************************)
MaxHeaderLen == 3

(***************************************************************************)
(* Strings.                                                                *)
(***************************************************************************)
\* the list of the values of a function on 1..n
list(f) == f \o <<>>

StringsUpTo(alphabet, n) == UNION {[1..k -> alphabet] : k \in 0..n}

\* Python's None, as an argument of canon
None == <<"None">>

\* the characters str.strip() and the regex class \s treat as white space
Whitespace == {" ", "\t"}

UpperCase == <<"A", "B", "C", "D", "E", "F", "G", "H", "I", "J", "K", "L", "M",
               "N", "O", "P", "Q", "R", "S", "T", "U", "V", "W", "X", "Y", "Z">>

LowerCase == <<"a", "b", "c", "d", "e", "f", "g", "h", "i", "j", "k", "l", "m",
               "n", "o", "p", "q", "r", "s", "t", "u", "v", "w", "x", "y", "z">>

\* str.lower() on one character
LowerChar(c) ==
    IF \E k \in 1..26 : UpperCase[k] = c
    THEN LowerCase[CHOOSE k \in 1..26 : UpperCase[k] = c]
    ELSE c

\* str.lower()
Lower(s) == list([k \in 1..Len(s) |-> LowerChar(s[k])])

RECURSIVE LStrip(_)
LStrip(s) ==
    IF s # <<>> /\ Head(s) \in Whitespace THEN LStrip(Tail(s)) ELSE s

RECURSIVE RStrip(_)
RStrip(s) ==
    IF s # <<>> /\ s[Len(s)] \in Whitespace
    THEN RStrip(SubSeq(s, 1, Len(s) - 1))
    ELSE s

\* a strip that only knows the blank, not the other white space
StripBlanksOnly(s) ==
    LET RECURSIVE L(_)
        L(t) == IF t # <<>> /\ Head(t) = " " THEN L(Tail(t)) ELSE t
        RECURSIVE R(_)
        R(t) == IF t # <<>> /\ t[Len(t)] = " "
                THEN R(SubSeq(t, 1, Len(t) - 1)) ELSE t
    IN  R(L(s))

\* str.strip()
Strip(s) == RStrip(LStrip(s))

\* str.replace(old, new) for a single character old
Replace(s, old, new) ==
    list([k \in 1..Len(s) |-> IF s[k] = old THEN new ELSE s[k]])

\* re.sub(r"\s+", " ", s): every maximal run of white space becomes one blank
RECURSIVE CollapseWs(_)
CollapseWs(s) ==
    IF s = <<>> THEN <<>>
    ELSE IF Head(s) \in Whitespace
         THEN <<" ">> \o CollapseWs(LStrip(Tail(s)))
         ELSE <<Head(s)>> \o CollapseWs(Tail(s))

\* canon(s), app.py lines 130-137
canon(s) ==
    IF s = None THEN <<>>
    ELSE CollapseWs(Replace(Replace(Lower(Strip(s)), "RSQUO", "APOS"),
                            "BACKTICK", "APOS"))

(***************************************************************************)
(* Specification of canon alone: a header is drawn, canon is applied to    *)
(* it, and canon is applied again to each result.                          *)
(***************************************************************************)
HeaderChars == {" ", "\t", "A", "a", "RSQUO", "BACKTICK", "APOS"}

HeaderInputs == StringsUpTo(HeaderChars, MaxHeaderLen) \cup {None}

MaxCanonCalls == 3

\* no frame merged yet, nothing rendered yet
idle == <<>>

NoReport == [rendered |-> FALSE]

LoadIdle ==
    /\ i = 0
    /\ sheets = <<>>
    /\ df = idle
    /\ dfs = <<>>
    /\ errors = <<>>
    /\ df_all = idle
    /\ d1 = 0
    /\ d2 = 0
    /\ report = NoReport

InitCanon ==
    /\ pc = "canon"
    /\ arg \in HeaderInputs
    /\ ret = <<>>
    /\ LoadIdle

CanonCall ==
    /\ pc = "canon"
    /\ Len(ret) < MaxCanonCalls
    /\ ret' = Append(ret, canon(IF ret = <<>> THEN arg ELSE ret[Len(ret)]))
    /\ UNCHANGED <<pc, arg>>
    /\ UNCHANGED loadVars

NextCanon == CanonCall

SpecCanon == InitCanon /\ [][NextCanon]_vars

IsString(s) ==
    /\ s # None
    /\ DOMAIN s = 1..Len(s)
    /\ \A k \in 1..Len(s) : s[k] \in HeaderChars

\* C8: canon is total (every input, the empty string and None included,
\* gives a string) and idempotent: canon(canon(h)) = canon(h).
C8_CanonIdempotent ==
    pc = "canon" =>
        /\ \A k \in 1..Len(ret) : IsString(ret[k])
        /\ \A k \in 2..Len(ret) : ret[k] = ret[1]

\* canon has been applied twice to a header that it changes
C8_Witness ==
    /\ pc = "canon"
    /\ Len(ret) >= 2
    /\ arg # None
    /\ Len(arg) = MaxHeaderLen
    /\ ret[1] # arg
    /\ Len(ret[1]) = 2

(***************************************************************************)
(* Text coercion, standardize lines 159-171.  A cell is text; a numeric    *)
(* cell reaches these lines as the text of its digits.                     *)
(***************************************************************************)
MaxTextLen == 3

\* Series.str.replace(ch, "", regex=False): every occurrence of ch is deleted
DeleteChar(s, ch) == SelectSeq(s, LAMBDA c : c # ch)

\* lines 167-168
coerce_Tech(cell) == Strip(cell)

\* a Service coercion that forgot the strip
coerce_Service_NoStrip(cell) == cell

\* lines 170-171
coerce_Service(cell) == Strip(cell)

\* lines 159-165
coerce_PaymentMode(cell) == DeleteChar(Strip(cell), ".")

TextChars == {" ", "\t", ".", "a", "A"}

TextCells == StringsUpTo(TextChars, MaxTextLen)

TextFields == {"Tech", "Service", "PaymentMode"}

InitText ==
    /\ pc = "text"
    /\ arg \in [field : TextFields, cell : TextCells]
    /\ ret = <<>>
    /\ LoadIdle

CoerceTech ==
    /\ pc = "text"
    /\ arg.field = "Tech"
    /\ ret = <<>>
    /\ ret' = <<coerce_Tech(arg.cell)>>
    /\ UNCHANGED <<pc, arg>>
    /\ UNCHANGED loadVars

CoerceService ==
    /\ pc = "text"
    /\ arg.field = "Service"
    /\ ret = <<>>
    /\ ret' = <<coerce_Service(arg.cell)>>
    /\ UNCHANGED <<pc, arg>>
    /\ UNCHANGED loadVars

CoercePaymentMode ==
    /\ pc = "text"
    /\ arg.field = "PaymentMode"
    /\ ret = <<>>
    /\ ret' = <<coerce_PaymentMode(arg.cell)>>
    /\ UNCHANGED <<pc, arg>>
    /\ UNCHANGED loadVars

NextText == CoerceTech \/ CoerceService \/ CoercePaymentMode

SpecText == InitText /\ [][NextText]_vars

\* out is s without its leading and trailing white space: s is white space,
\* then out, then white space, and out neither starts nor ends with white space
IsTrimOf(out, s) ==
    /\ out = <<>> \/ (out[1] \notin Whitespace /\ out[Len(out)] \notin Whitespace)
    /\ \E a \in 0..Len(s) :
          /\ a + Len(out) <= Len(s)
          /\ \A k \in 1..a : s[k] \in Whitespace
          /\ \A k \in 1..Len(out) : s[a + k] = out[k]
          /\ \A k \in (a + Len(out) + 1)..Len(s) : s[k] \in Whitespace

\* sub is t with every "." left out, the other characters in their order
RECURSIVE IsWithoutDots(_, _)
IsWithoutDots(sub, t) ==
    IF t = <<>> THEN sub = <<>>
    ELSE IF Head(t) = "." THEN IsWithoutDots(sub, Tail(t))
         ELSE sub # <<>> /\ Head(sub) = Head(t) /\ IsWithoutDots(Tail(sub), Tail(t))

\* C7 as stated: the coercion of a Tech, Service or PaymentMode cell only
\* trims: the output is the input without its surrounding white space.
C7_Original ==
    (pc = "text" /\ ret # <<>>) => IsTrimOf(ret[1], arg.cell)

\* C7 amended: Tech and Service cells are only trimmed; a PaymentMode cell is
\* trimmed and then loses every "." it contains, at any position.
C7_TextCoercion ==
    (pc = "text" /\ ret # <<>>) =>
        IF arg.field = "PaymentMode"
        THEN \E t \in TextCells : IsTrimOf(t, arg.cell) /\ IsWithoutDots(ret[1], t)
        ELSE IsTrimOf(ret[1], arg.cell)

\* a Service cell with white space on both sides and a dot inside was coerced
C7_Witness ==
    /\ pc = "text"
    /\ ret # <<>>
    /\ arg.field = "Service"
    /\ Len(arg.cell) = 3
    /\ arg.cell[1] \in Whitespace
    /\ arg.cell[3] \in Whitespace
    /\ ret[1] = <<".">>

(***************************************************************************)
(* Currency coercion, standardize lines 173-189.                           *)
(***************************************************************************)
MaxCellLen == 4

Digits == <<"0", "1", "2", "3", "4", "5", "6", "7", "8", "9">>

IsDigit(c) == \E k \in 1..10 : Digits[k] = c

DigitVal(c) == (CHOOSE k \in 1..10 : Digits[k] = c) - 1

\* a number is m / 10^e, kept with no trailing zero in its fraction, so that
\* equal numbers are equal records; NaN is pandas' null
NaN == [nan |-> TRUE, m |-> 0, e |-> 0]

RECURSIVE Num(_, _)
Num(m, e) ==
    IF e > 0 /\ m % 10 = 0 THEN Num(m \div 10, e - 1)
    ELSE [nan |-> FALSE, m |-> m, e |-> e]

\* a strip step that keeps a minus sign only in front
StripFrontMinusOnly(s) ==
    LET kept == SelectSeq(s, LAMBDA c : IsDigit(c) \/ c = "." \/ c = "-")
    IN  IF kept = <<>> THEN <<>>
        ELSE <<Head(kept)>> \o SelectSeq(Tail(kept), LAMBDA c : c # "-")

\* Series.str.replace(r"[^\d\.\-]", "", regex=True), lines 178 and 187
StripNonNumeric(s) == SelectSeq(s, LAMBDA c : IsDigit(c) \/ c = "." \/ c = "-")

\* the integer written by a string of digits
RECURSIVE DigitsToInt(_)
DigitsToInt(s) ==
    IF s = <<>> THEN 0
    ELSE 10 * DigitsToInt(SubSeq(s, 1, Len(s) - 1)) + DigitVal(s[Len(s)])

CountChar(s, ch) == Len(SelectSeq(s, LAMBDA c : c = ch))

\* pd.to_numeric(.., errors="coerce") on one cleaned cell: an optional sign, then
\* digits with at most one decimal point and at least one digit; anything else,
\* the empty text included, is NaN
to_numeric(s) ==
    LET neg  == s # <<>> /\ Head(s) = "-"
        body == IF neg THEN Tail(s) ELSE s
        ds   == SelectSeq(body, IsDigit)
        dot  == IF \E k \in 1..Len(body) : body[k] = "."
                THEN CHOOSE k \in 1..Len(body) : body[k] = "."
                ELSE Len(body) + 1
        ok   == /\ \A k \in 1..Len(body) : IsDigit(body[k]) \/ body[k] = "."
                /\ CountChar(body, ".") <= 1
                /\ ds # <<>>
        mag  == DigitsToInt(ds)
    IN  IF ~ok THEN NaN
        ELSE Num(IF neg THEN 0 - mag ELSE mag, Len(body) - dot + (IF dot > Len(body) THEN 1 ELSE 0))

\* lines 174-180
coerce_Price(cell) ==
    LET clean == StripNonNumeric(cell)
    IN  [clean |-> clean, value |-> to_numeric(clean)]

\* lines 183-189
coerce_Payout(cell) ==
    LET clean == StripNonNumeric(cell)
    IN  [clean |-> clean, value |-> to_numeric(clean)]

CurrencyChars == {"K", "1", "0", ",", ".", "-", "EMDASH"}

CurrencyCells == StringsUpTo(CurrencyChars, MaxCellLen)

InitCurrency ==
    /\ pc = "currency"
    /\ arg \in [field : {"Price", "Payout"}, cell : CurrencyCells]
    /\ ret = <<>>
    /\ LoadIdle

CoercePrice ==
    /\ pc = "currency"
    /\ arg.field = "Price"
    /\ ret = <<>>
    /\ ret' = <<coerce_Price(arg.cell)>>
    /\ UNCHANGED <<pc, arg>>
    /\ UNCHANGED loadVars

CoercePayout ==
    /\ pc = "currency"
    /\ arg.field = "Payout"
    /\ ret = <<>>
    /\ ret' = <<coerce_Payout(arg.cell)>>
    /\ UNCHANGED <<pc, arg>>
    /\ UNCHANGED loadVars

NextCurrency == CoercePrice \/ CoercePayout

SpecCurrency == InitCurrency /\ [][NextCurrency]_vars

\* the characters a currency symbol is made of: no digit, separator or minus
IsSymbolChar(c) == ~IsDigit(c) /\ c \notin {",", ".", "-"}

\* <symbol>?<digits>[,.digits]*: an optional symbol, a digit, then digits and
\* the separators "," and "."
MatchesPattern(cell) ==
    \E a \in 0..Len(cell) :
        /\ a < Len(cell)
        /\ \A k \in 1..a : IsSymbolChar(cell[k])
        /\ IsDigit(cell[a + 1])
        /\ \A k \in (a + 1)..Len(cell) : IsDigit(cell[k]) \/ cell[k] \in {",", "."}

\* the number a currency text denotes, read left to right: the digits in
\* order, those after the decimal point being the fraction
RECURSIVE Scan(_, _, _, _)
Scan(s, m, e, seen) ==
    IF s = <<>> THEN Num(m, e)
    ELSE IF IsDigit(Head(s))
         THEN Scan(Tail(s), 10 * m + DigitVal(Head(s)), IF seen THEN e + 1 ELSE e, seen)
         ELSE Scan(Tail(s), m, e, seen \/ Head(s) = ".")

RefValue(cell) == Scan(cell, 0, 0, FALSE)

HasDigit(cell) == \E k \in 1..Len(cell) : IsDigit(cell[k])

\* clean is cell with exactly its digits, "." and "-" kept, in their order
RECURSIVE IsKeptOf(_, _)
IsKeptOf(clean, cell) ==
    IF cell = <<>> THEN clean = <<>>
    ELSE IF IsDigit(Head(cell)) \/ Head(cell) \in {".", "-"}
         THEN clean # <<>> /\ Head(clean) = Head(cell) /\ IsKeptOf(Tail(clean), Tail(cell))
         ELSE IsKeptOf(clean, Tail(cell))

\* C6 as stated: every text of the pattern <symbol>?<digits>[,.digits]* gives
\* its numeric value (never null), every text without a digit gives null, and
\* a minus sign survives the strip step only in front.
C6_Original ==
    (pc = "currency" /\ ret # <<>>) =>
        LET cell == arg.cell  r == ret[1]
        IN  /\ MatchesPattern(cell) => ~r.value.nan
            /\ (MatchesPattern(cell) /\ CountChar(cell, ".") <= 1) => r.value = RefValue(cell)
            /\ ~HasDigit(cell) => r.value = NaN
            /\ \A k \in 2..Len(r.clean) : r.clean[k] # "-"

\* C6 amended: the coercion never raises; the strip step keeps every digit,
\* every "." and every "-" of the cell, wherever it stands; a text of the
\* pattern with at most one "." gives its numeric value with the commas
\* removed; a text of the pattern with two or more "." gives null, as does a
\* text whose minus sign is not in front and a text without a digit.
C6_CurrencyCoercion ==
    (pc = "currency" /\ ret # <<>>) =>
        LET cell == arg.cell  r == ret[1]
        IN  /\ r.value.nan \in BOOLEAN /\ r.value.m \in Int /\ r.value.e \in Nat
            /\ IsKeptOf(r.clean, cell)
            /\ (MatchesPattern(cell) /\ CountChar(cell, ".") <= 1) => r.value = RefValue(cell)
            /\ (MatchesPattern(cell) /\ CountChar(cell, ".") >= 2) => r.value = NaN
            /\ (\E k \in 2..Len(cell) : cell[k] = "-" /\ HasDigit(SubSeq(cell, 1, k - 1)))
                  => r.value = NaN
            /\ ~HasDigit(cell) => r.value = NaN

\* a cell with a symbol, a thousands separator and a decimal point was coerced
\* to a number with a fraction
C6_Witness ==
    /\ pc = "currency"
    /\ ret # <<>>
    /\ MatchesPattern(arg.cell)
    /\ CountChar(arg.cell, ",") = 1
    /\ CountChar(arg.cell, ".") = 1
    /\ ret[1].value = Num(11, 1)

(***************************************************************************)
(* Configuration, lines 39-90.                                             *)
(***************************************************************************)
sRecep == <<"R", "e", "c", "e", "p">>
sTech == <<"T", "e", "c", "h">>
sWaxHub == <<"W", "a", "x", "-", "H", "u", "b">>

\* streams, lines 248-252, in load order
streams == <<sRecep, sTech, sWaxHub>>

cTimestamp == <<"T", "i", "m", "e", "s", "t", "a", "m", "p">>
cName == <<"N", "a", "m", "e">>
cPhone == <<"P", "h", "o", "n", "e">>
cTech == <<"T", "e", "c", "h">>
cService == <<"S", "e", "r", "v", "i", "c", "e">>
cPaymentMode == <<"P", "a", "y", "m", "e", "n", "t", "M", "o", "d", "e">>
cComments == <<"C", "o", "m", "m", "e", "n", "t", "s">>
cPrice == <<"P", "r", "i", "c", "e">>
cPayout == <<"P", "a", "y", "o", "u", "t">>
cStream == <<"S", "t", "r", "e", "a", "m">>

kTimestamp == <<"t", "i", "m", "e", "s", "t", "a", "m", "p">>
kName == <<"n", "a", "m", "e">>
kPhone == <<"p", "h", "o", "n", "e", " ", "n", "u", "m", "b", "e", "r">>
kTech == <<"s", "e", "r", "v", "i", "c", "e", " ", "p", "r", "o", "v", "i", "d", "e", "r",
           "APOS", "s", " ", "n", "a", "m", "e">>
kService == <<"s", "e", "r", "v", "i", "c", "e", " ", "p", "r", "o", "v", "i", "d", "e", "d">>
kMode == <<"m", "o", "d", "e", " ", "o", "f", " ", "p", "a", "y", "m", "e", "n", "t">>
kComments == <<"c", "o", "m", "m", "e", "n", "t", "s">>
kPrice == <<"p", "r", "i", "c", "e">>
kPayout035 == <<"p", "a", "y", "o", "u", "t", " ", "(", "0", ".", "3", "5", ")">>
kPayout == <<"p", "a", "y", "o", "u", "t">>

\* one stream's entry of COLUMN_MAPS, in declaration order; the three
\* entries (lines 51-62, 63-74, 76-87) are the same
StreamMap ==
    << <<kTimestamp, cTimestamp>>, <<kName, cName>>, <<kPhone, cPhone>>,
       <<kTech, cTech>>, <<kService, cService>>, <<kMode, cPaymentMode>>,
       <<kComments, cComments>>, <<kPrice, cPrice>>,
       <<kPayout035, cPayout>>, <<kPayout, cPayout>> >>

\* COLUMN_MAPS.get(stream_name, {}), line 146
COLUMN_MAPS(stream_name) ==
    IF \E k \in 1..Len(streams) : streams[k] = stream_name THEN StreamMap ELSE <<>>

\* a list of required columns that forgot Price
REQUIRED_INTERNAL_NoPrice == <<cTimestamp, cTech, cService>>

\* line 90
REQUIRED_INTERNAL == <<cTimestamp, cTech, cService, cPrice>>

\* COMMISSION_RATE, line 39: 0.35 = 35 / 10^2
COMMISSION_RATE == Num(35, 2)

(***************************************************************************)
(* Data frames: a list of column labels and a list of rows, each row the   *)
(* list of its values in column order.  A Timestamp value is a day number  *)
(* or NaT; a Price or Payout value is a number or NaN; any other value is  *)
(* text or the null that concat pads with.                                 *)
(***************************************************************************)
NaT == 0

TextNaN == <<"NaN">>

HasCol(f, name) == \E k \in 1..Len(f.columns) : f.columns[k] = name

CountCol(f, name) == Cardinality({k \in 1..Len(f.columns) : f.columns[k] = name})

ColIndex(f, name) == CHOOSE k \in 1..Len(f.columns) : f.columns[k] = name

\* f[name] of one row
Cell(f, row, name) == row[ColIndex(f, name)]

\* pd.DataFrame(ws.get_all_records()), lines 211-212: one record per data row,
\* keyed by the header row; a tab without data rows gives no record and so a
\* frame without columns
DataFrame(data) ==
    IF data.records = <<>> THEN [columns |-> <<>>, rows |-> <<>>]
    ELSE [columns |-> data.headers, rows |-> data.records]

\* canon_to_original[kcanon], line 143, from the canonical forms ccols of the
\* columns: of the columns with the same canonical form the last one stays in
\* the dict
CanonToOriginal(cols, ccols, kcanon) ==
    cols[CHOOSE k \in 1..Len(cols) :
            /\ ccols[k] = kcanon
            /\ \A k2 \in (k + 1)..Len(cols) : ccols[k2] # kcanon]

\* the columns after df.rename(columns=rename_map), lines 142-153: every alias
\* whose canonical form is the canonical form of a column renames that column
RenameMap(cols, stream_name) ==
    LET mapping == COLUMN_MAPS(stream_name)
        ccols == list([k \in 1..Len(cols) |-> canon(cols[k])])
        ckeys == list([j \in 1..Len(mapping) |-> canon(mapping[j][1])])
        hit(j, k) == /\ \E k2 \in 1..Len(cols) : ccols[k2] = ckeys[j]
                     /\ CanonToOriginal(cols, ccols, ckeys[j]) = cols[k]
    IN  list([k \in 1..Len(cols) |->
            IF \E j \in 1..Len(mapping) : hit(j, k)
            THEN mapping[CHOOSE j \in 1..Len(mapping) : hit(j, k)][2]
            ELSE cols[k]])

\* pd.to_datetime(.., errors="coerce", dayfirst=True), line 157, on one cell.
\* The text of a date is modelled by the digit of its day number; any other
\* text does not parse and gives NaT.
to_datetime(cell) ==
    IF Len(cell) = 1 /\ IsDigit(cell[1]) /\ DigitVal(cell[1]) >= 1
    THEN DigitVal(cell[1])
    ELSE NaT

\* df["Price"] * COMMISSION_RATE, line 192, on one value
TimesRate(v) ==
    IF v.nan THEN NaN ELSE Num(v.m * COMMISSION_RATE.m, v.e + COMMISSION_RATE.e)

\* the labels that lines 156-189 coerce
CoercedLabels == {cTimestamp, cPaymentMode, cTech, cService, cPrice, cPayout}

\* f[label] of a label carried by two columns is a frame, not a series: its
\* .str raises AttributeError and to_datetime of it raises ValueError
CoercionRaises(f) == \E name \in CoercedLabels : CountCol(f, name) > 1

\* lines 156-189 on one value of the column labelled name
CoerceValue(name, v) ==
    IF name = cTimestamp THEN to_datetime(v)
    ELSE IF name = cPaymentMode THEN coerce_PaymentMode(v)
    ELSE IF name = cTech THEN coerce_Tech(v)
    ELSE IF name = cService THEN coerce_Service(v)
    ELSE IF name = cPrice THEN coerce_Price(v).value
    ELSE IF name = cPayout THEN coerce_Payout(v).value
    ELSE v

\* lines 156-189 on one row
CoerceRow(cols, row) == list([k \in 1..Len(cols) |-> CoerceValue(cols[k], row[k])])

\* lines 190-192 on one coerced row: the Payout computed from the Price
WithPayout(cols, row) ==
    Append(row, TimesRate(row[CHOOSE k \in 1..Len(cols) : cols[k] = cPrice]))

\* standardize lines 155-194, on the renamed frame
Coerced(f) ==
    IF ~HasCol(f, cPayout) /\ HasCol(f, cPrice)
    THEN [columns |-> Append(f.columns, cPayout),
          rows |-> list([r \in 1..Len(f.rows) |->
                      WithPayout(f.columns, CoerceRow(f.columns, f.rows[r]))])]
    ELSE [columns |-> f.columns,
          rows |-> list([r \in 1..Len(f.rows) |-> CoerceRow(f.columns, f.rows[r])])]

\* the list missing of validate_required, line 198
MissingRequired(f) ==
    SelectSeq(REQUIRED_INTERNAL, LAMBDA c : ~HasCol(f, c))

\* df["Stream"] = stream_name, line 215
SetStream(f, stream_name) ==
    IF HasCol(f, cStream)
    THEN [columns |-> f.columns,
          rows |-> list([r \in 1..Len(f.rows) |->
                      [f.rows[r] EXCEPT ![ColIndex(f, cStream)] = stream_name]])]
    ELSE [columns |-> Append(f.columns, cStream),
          rows |-> list([r \in 1..Len(f.rows) |-> Append(f.rows[r], stream_name)])]

\* the columns of pd.concat(dfs): the union of the frames' columns, in the
\* order in which they first appear
RECURSIVE ConcatColumns(_)
ConcatColumns(frames) ==
    IF frames = <<>> THEN <<>>
    ELSE LET before == ConcatColumns(SubSeq(frames, 1, Len(frames) - 1))
             last   == frames[Len(frames)]
         IN  before \o SelectSeq(last.columns,
                                 LAMBDA c : \A k \in 1..Len(before) : before[k] # c)

\* the null of a column: NaT, NaN, or the null of a text column
NullOf(name) ==
    IF name = cTimestamp THEN NaT
    ELSE IF name \in {cPrice, cPayout} THEN NaN
    ELSE TextNaN

\* the rows of one frame laid out on the columns cols, a column the frame
\* lacks being null
Reindex(f, cols) ==
    list([r \in 1..Len(f.rows) |->
        list([k \in 1..Len(cols) |->
            IF HasCol(f, cols[k]) THEN Cell(f, f.rows[r], cols[k])
            ELSE NullOf(cols[k])])])

RECURSIVE ConcatRows(_, _)
ConcatRows(frames, cols) ==
    IF frames = <<>> THEN <<>>
    ELSE Reindex(Head(frames), cols) \o ConcatRows(Tail(frames), cols)

\* a concat that stacks the frames last to first
concat_reversed(frames) ==
    LET RECURSIVE Rev(_)
        Rev(f) == IF f = <<>> THEN <<>> ELSE Append(Rev(Tail(f)), Head(f))
    IN  [columns |-> ConcatColumns(frames),
         rows |-> ConcatRows(Rev(frames), ConcatColumns(frames))]

\* pd.concat(dfs, ignore_index=True), line 265
concat(frames) ==
    [columns |-> ConcatColumns(frames),
     rows |-> ConcatRows(frames, ConcatColumns(frames))]

All == <<"A", "l", "l">>

\* a date test whose upper bound is exclusive
InDateRange_UpperExclusive(ts, lo, hi) == ts >= lo /\ ts < hi

\* line 224, on one Timestamp value
InDateRange(ts, lo, hi) == ts >= lo /\ ts <= hi

\* apply_filters, lines 219-235
apply_filters(f, tech, service, paymode, lo, hi) ==
    LET keep(rows, test(_)) == SelectSeq(rows, test)
        out1 == IF HasCol(f, cTimestamp)
                THEN keep(keep(f.rows, LAMBDA r : Cell(f, r, cTimestamp) # NaT),
                          LAMBDA r : InDateRange(Cell(f, r, cTimestamp), lo, hi))
                ELSE f.rows
        out2 == IF tech # <<>> /\ tech # All
                THEN keep(out1, LAMBDA r : Cell(f, r, cTech) = tech)
                ELSE out1
        out3 == IF service # <<>> /\ service # All
                THEN keep(out2, LAMBDA r : Cell(f, r, cService) = service)
                ELSE out2
        out4 == IF paymode # <<>> /\ paymode # All /\ HasCol(f, cPaymentMode)
                THEN keep(out3, LAMBDA r : Cell(f, r, cPaymentMode) = paymode)
                ELSE out3
    IN  [columns |-> f.columns, rows |-> out4]

\* a + b on numbers
Add(a, b) ==
    LET e == IF a.e >= b.e THEN a.e ELSE b.e
        RECURSIVE Pow10(_)
        Pow10(n) == IF n = 0 THEN 1 ELSE 10 * Pow10(n - 1)
    IN  Num(a.m * Pow10(e - a.e) + b.m * Pow10(e - b.e), e)

\* f[name].fillna(0).sum(), lines 294-295 and 315-316
RECURSIVE SumColumn(_, _, _)
SumColumn(f, rows, name) ==
    IF rows = <<>> THEN Num(0, 0)
    ELSE LET v == Cell(f, Head(rows), name)
         IN  Add(IF v.nan THEN Num(0, 0) ELSE v, SumColumn(f, Tail(rows), name))

(***************************************************************************)
(* Specification of apply_filters alone: a table, a date range and the     *)
(* selectors are drawn and the filter is applied.                          *)
(***************************************************************************)
MaxDate == 3

MaxFilterRows == 3

Dates == 1..MaxDate

tagA == <<"a">>
tagB == <<"b">>

\* a standardized table whose k-th row has the Timestamp tss[k] and the Price k
FilterTable(tss) ==
    [columns |-> <<cTimestamp, cTech, cService, cPaymentMode, cPrice>>,
     rows |-> list([k \in 1..Len(tss) |->
                 LET tag == IF k % 2 = 1 THEN tagA ELSE tagB
                 IN  <<tss[k], tag, tag, tag, Num(k, 0)>>])]

FilterCalls ==
    {[df |-> FilterTable(tss), tech |-> sel[1], service |-> sel[2], paymode |-> sel[3],
      lo |-> lo, hi |-> hi] :
        tss \in StringsUpTo(Dates \cup {NaT}, MaxFilterRows),
        sel \in {<<All, All, All>>, <<tagA, All, All>>, <<All, tagA, All>>, <<All, All, tagA>>},
        lo \in Dates, hi \in Dates}

InitFilter ==
    /\ pc = "filter"
    /\ arg \in FilterCalls
    /\ ret = <<>>
    /\ LoadIdle

ApplyFilters ==
    /\ pc = "filter"
    /\ ret = <<>>
    /\ ret' = <<apply_filters(arg.df, arg.tech, arg.service, arg.paymode, arg.lo, arg.hi)>>
    /\ UNCHANGED <<pc, arg>>
    /\ UNCHANGED loadVars

NextFilter == ApplyFilters

SpecFilter == InitFilter /\ [][NextFilter]_vars

\* C5: with every selector on All, apply_filters returns exactly the rows whose
\* Timestamp is not null and lies in [d1, d2], both bounds included, in their
\* input order.
C5_DateRangeInclusive ==
    (pc = "filter" /\ ret # <<>> /\ arg.tech = All /\ arg.service = All /\ arg.paymode = All) =>
        LET tbl  == arg.df
            out  == ret[1]
            ts(r) == Cell(tbl, r, cTimestamp)
            id(r) == Cell(tbl, r, cPrice).m
            K    == {k \in 1..Len(tbl.rows) :
                        ts(tbl.rows[k]) # NaT /\ arg.lo <= ts(tbl.rows[k]) /\ ts(tbl.rows[k]) <= arg.hi}
        IN  /\ out.columns = tbl.columns
            /\ Len(out.rows) = Cardinality(K)
            /\ \A j \in 1..Len(out.rows) : \E k \in K : out.rows[j] = tbl.rows[k]
            /\ \A j1, j2 \in 1..Len(out.rows) : j1 < j2 => id(out.rows[j1]) < id(out.rows[j2])

\* a table with a null Timestamp, a Timestamp on the upper bound and one
\* beyond it was filtered, and only the row on the bound was kept
C5_Witness ==
    /\ pc = "filter"
    /\ ret # <<>>
    /\ arg.tech = All /\ arg.service = All /\ arg.paymode = All
    /\ Len(arg.df.rows) = 3
    /\ \E k \in 1..3 : arg.df.rows[k][1] = NaT
    /\ \E k \in 1..3 : arg.df.rows[k][1] = arg.hi
    /\ \E k \in 1..3 : arg.df.rows[k][1] > arg.hi
    /\ Len(ret[1].rows) = 1
    /\ ret[1].rows[1][1] = arg.hi

(***************************************************************************)
(* The load cycle, lines 254-327.                                          *)
(***************************************************************************)
MaxRows == 2

\* header texts as they stand in the sheets
hTimestamp == <<"T", "i", "m", "e", "s", "t", "a", "m", "p">>
hTech == <<"S", "e", "r", "v", "i", "c", "e", " ", " ", "P", "r", "o", "v", "i", "d", "e", "r",
           "RSQUO", "s", " ", "n", "a", "m", "e", " ">>
hService == <<"S", "e", "r", "v", "i", "c", "e", " ", "P", "r", "o", "v", "i", "d", "e", "d">>
hMode == <<"M", "o", "d", "e", " ", "o", "f", " ", "p", "a", "y", "m", "e", "n", "t">>
hPrice == <<" ", "P", "R", "I", "C", "E">>
hPayout035 == <<"P", "a", "y", "o", "u", "t", " ", "(", "0", ".", "3", "5", ")">>
hPayout == <<"P", "a", "y", "o", "u", "t">>
hNotes == <<"N", "o", "t", "e", "s">>
hComments == <<"C", "o", "m", "m", "e", "n", "t", "s">>

HFull == <<hTimestamp, hTech, hService, hMode, hPrice, hPayout035>>
HNoPayout == <<hTimestamp, hTech, hService, hMode, hPrice>>
HNoMode == <<hTimestamp, hTech, hService, hPrice, hPayout>>
HNoPrice == <<hTimestamp, hTech, hService, hMode, hPayout>>
HBothPayout == <<hTimestamp, hTech, hService, hMode, hPrice, hPayout035, hPayout>>
HExtra == <<hTimestamp, hNotes, hTech, hService, hMode, hPrice, hPayout035, hComments>>

\* what a form response leaves in a row: the Timestamp and the Price cell vary
RowSeeds ==
    { [ts |-> <<"1">>, price |-> <<"K", "1", ",", "5">>],
      [ts |-> <<"n", "/", "a">>, price |-> <<"2", ".", "5">>] }

CellFor(h, seed) ==
    IF h = hTimestamp THEN seed.ts
    ELSE IF h = hPrice THEN seed.price
    ELSE IF h = hTech THEN <<" ", "A", "n", "n">>
    ELSE IF h = hService THEN <<"W", "a", "x", " ">>
    ELSE IF h = hMode THEN <<"M", "p", "e", "s", "a", ".">>
    ELSE IF h = hPayout035 THEN <<"1", "0">>
    ELSE IF h = hPayout THEN <<"7">>
    ELSE <<"x">>

\* the outcome of the worksheet calls of lines 209-211: the records of the tab
Sheet(headers, seeds) ==
    [kind |-> "ok", headers |-> headers,
     records |-> list([r \in 1..Len(seeds) |->
                    list([k \in 1..Len(headers) |-> CellFor(headers[k], seeds[r])])])]

\* or an exception (no such tab, no access, no network)
FetchFailed == [kind |-> "fail", headers |-> <<>>, records |-> <<>>]

TwoRows ==
    << [ts |-> <<"3">>, price |-> <<"EMDASH">>],
       [ts |-> <<"1">>, price |-> <<"K", "1", ",", "5">>] >>

FetchOutcomes ==
    {FetchFailed}
    \cup {Sheet(HFull, seeds) : seeds \in StringsUpTo(RowSeeds, MaxRows)}
    \cup {Sheet(h, TwoRows) : h \in {HNoPayout, HNoMode, HNoPrice, HBothPayout, HExtra}}

Init ==
    /\ pc = "load"
    /\ i = 1
    /\ sheets = <<>>
    /\ df = idle
    /\ dfs = <<>>
    /\ errors = <<>>
    /\ df_all = idle
    /\ d1 = 0
    /\ d2 = 0
    /\ report = NoReport
    /\ arg = <<>>
    /\ ret = <<>>

AfterStream == IF i = Len(streams) THEN "loaded" ELSE "load"

\* an except clause that swallows the exception without reporting it
FetchRaises_Silent ==
    /\ pc = "load"
    /\ sheets' = Append(sheets, FetchFailed)
    /\ i' = i + 1
    /\ pc' = AfterStream
    /\ UNCHANGED <<errors, df, dfs, df_all, d1, d2, report, arg, ret>>

\* lines 256-260 and 209-211: a worksheet call raises in load_tab; the except
\* clause reports it and the loop goes on
FetchRaises ==
    /\ pc = "load"
    /\ sheets' = Append(sheets, FetchFailed)
    /\ errors' = Append(errors, [stream |-> streams[i], what |-> "failed"])
    /\ i' = i + 1
    /\ pc' = AfterStream
    /\ UNCHANGED <<df, dfs, df_all, d1, d2, report, arg, ret>>

\* lines 209-212: the records of the tab are fetched and made a frame
FetchReturns ==
    /\ pc = "load"
    /\ \E fetched \in FetchOutcomes \ {FetchFailed} :
          /\ sheets' = Append(sheets, fetched)
          /\ df' = DataFrame(fetched)
    /\ pc' = "rename"
    /\ UNCHANGED <<i, dfs, errors, df_all, d1, d2, report, arg, ret>>

\* standardize, lines 141-153
Rename ==
    /\ pc = "rename"
    /\ df' = [columns |-> RenameMap(df.columns, streams[i]), rows |-> df.rows]
    /\ pc' = "coerce"
    /\ UNCHANGED <<i, sheets, dfs, errors, df_all, d1, d2, report, arg, ret>>

\* standardize, lines 155-189, raises on a label carried by two columns; the
\* except clause of lines 259-260 reports it and the loop goes on
CoerceRaises ==
    /\ pc = "coerce"
    /\ CoercionRaises(df)
    /\ errors' = Append(errors, [stream |-> streams[i], what |-> "failed"])
    /\ df' = idle
    /\ i' = i + 1
    /\ pc' = AfterStream
    /\ UNCHANGED <<sheets, dfs, df_all, d1, d2, report, arg, ret>>

\* standardize, lines 155-194
Coerce ==
    /\ pc = "coerce"
    /\ ~CoercionRaises(df)
    /\ df' = Coerced(df)
    /\ pc' = "validate"
    /\ UNCHANGED <<i, sheets, dfs, errors, df_all, d1, d2, report, arg, ret>>

\* lines 214 and 197-201: validate_required calls st.error and st.stop;
\* st.stop ends the run of the script (its exception is not an Exception, the
\* except clause does not catch it)
ValidateStops ==
    /\ pc = "validate"
    /\ MissingRequired(df) # <<>>
    /\ errors' = Append(errors, [stream |-> streams[i], what |-> "missing",
                                 missing |-> MissingRequired(df)])
    /\ pc' = "stopped"
    /\ UNCHANGED <<i, sheets, df, dfs, df_all, d1, d2, report, arg, ret>>

\* lines 214-216 and 258: the frame is tagged with its stream and appended
LoadTabReturns ==
    /\ pc = "validate"
    /\ MissingRequired(df) = <<>>
    /\ dfs' = Append(dfs, SetStream(df, streams[i]))
    /\ df' = idle
    /\ i' = i + 1
    /\ pc' = AfterStream
    /\ UNCHANGED <<sheets, errors, df_all, d1, d2, report, arg, ret>>

\* lines 262-263
StopNoFrames ==
    /\ pc = "loaded"
    /\ dfs = <<>>
    /\ pc' = "stopped"
    /\ UNCHANGED <<i, sheets, df, dfs, errors, df_all, d1, d2, report, arg, ret>>

NotNaT(f) ==
    {Cell(f, f.rows[r], cTimestamp) : r \in 1..Len(f.rows)} \ {NaT}

\* lines 265-283: the frames are concatenated and the sidebar shows its
\* defaults: the date range from the first to the last date of the table, or
\* today twice when the table has no date; every selector on All
Merge ==
    /\ pc = "loaded"
    /\ dfs # <<>>
    /\ df_all' = concat(dfs)
    /\ LET days == NotNaT(concat(dfs))
       IN  IF days # {}
           THEN /\ d1' = CHOOSE d \in days : \A e \in days : d <= e
                /\ d2' = CHOOSE d \in days : \A e \in days : e <= d
           ELSE \E today \in Dates : d1' = today /\ d2' = today
    /\ pc' = "merged"
    /\ UNCHANGED <<i, sheets, df, dfs, errors, report, arg, ret>>

\* lines 285-327: the three stream views and the combined view
Render ==
    /\ pc = "merged"
    /\ LET df_comb == apply_filters(df_all, All, All, All, d1, d2)
           df_s(name) == [columns |-> df_all.columns,
                          rows |-> SelectSeq(df_all.rows,
                                             LAMBDA r : Cell(df_all, r, cStream) = name)]
       IN  report' = [rendered |-> TRUE,
                      df_comb |-> df_comb,
                      rows |-> Len(df_comb.rows),
                      total_price |-> IF HasCol(df_comb, cPrice)
                                      THEN SumColumn(df_comb, df_comb.rows, cPrice)
                                      ELSE Num(0, 0),
                      total_payout |-> IF HasCol(df_comb, cPayout)
                                       THEN SumColumn(df_comb, df_comb.rows, cPayout)
                                       ELSE Num(0, 0),
                      stream_rows |-> list([k \in 1..Len(streams) |->
                          Len(apply_filters(df_s(streams[k]), All, All, All, d1, d2).rows)])]
    /\ pc' = "rendered"
    /\ UNCHANGED <<i, sheets, df, dfs, errors, df_all, d1, d2, arg, ret>>

Next ==
    \/ FetchRaises
    \/ FetchReturns
    \/ Rename
    \/ CoerceRaises
    \/ Coerce
    \/ ValidateStops
    \/ LoadTabReturns
    \/ StopNoFrames
    \/ Merge
    \/ Render

Spec == Init /\ [][Next]_vars

(***************************************************************************)
(* Properties of the load cycle.                                           *)
(***************************************************************************)
Over == pc \in {"stopped", "rendered"}

Merged == pc \in {"merged", "rendered"}

\* the rows of a table that carry the stream name
StreamRowsOf(f, name) == SelectSeq(f.rows, LAMBDA r : Cell(f, r, cStream) = name)

\* an error was shown for the k-th stream
Reported(k) == \E e \in 1..Len(errors) : errors[e].stream = streams[k]

\* the k-th stream was fetched and its frame was appended to dfs
Loaded(k) == k <= Len(sheets) /\ sheets[k].kind = "ok" /\ ~Reported(k)

IsAlias(h) == \E j \in 1..Len(StreamMap) : StreamMap[j][1] = canon(h)

AliasIndex(h) == CHOOSE j \in 1..Len(StreamMap) : StreamMap[j][1] = canon(h)

\* the internal name a header text stands for, or the text itself
TargetOf(h) == IF IsAlias(h) THEN StreamMap[AliasIndex(h)][2] ELSE h

\* the columns a fetched tab supplies; a tab without data rows supplies none
FieldsOf ==
    [sheet \in FetchOutcomes |->
        IF sheet.records = <<>> THEN {}
        ELSE {TargetOf(sheet.headers[c]) : c \in 1..Len(sheet.headers)}] @@ <<>>

Fields(sheet) == FieldsOf[sheet]

TargetFields == {cTimestamp, cTech, cService, cPaymentMode, cPrice, cPayout}

Gap(sheet) == TargetFields \ Fields(sheet)

\* C1 as stated: when the fetch of one stream fails, that stream has no row in
\* the merged table and every other stream whose fetch succeeded has all its
\* rows in the merged table, whether loaded before or after the failing one.
C1_FetchFailureIsolated ==
    (Over \/ Merged) =>
        \A f \in 1..Len(sheets) : sheets[f].kind = "fail" =>
            /\ Merged => StreamRowsOf(df_all, streams[f]) = <<>>
            /\ \A k \in 1..Len(sheets) : sheets[k].kind = "ok" =>
                  /\ Merged
                  /\ Len(StreamRowsOf(df_all, streams[k])) = Len(sheets[k].records)

\* The same with "whose load_tab call returned" in place of "whose fetch
\* succeeded": this much holds.
C1_IsolatedAmongLoadedStreams ==
    Merged =>
        \A f \in 1..Len(sheets) : sheets[f].kind = "fail" =>
            /\ StreamRowsOf(df_all, streams[f]) = <<>>
            /\ \A k \in 1..Len(sheets) : Loaded(k) =>
                  Len(StreamRowsOf(df_all, streams[k])) = Len(sheets[k].records)

\* C2 as stated: a stream whose sheet lacks a header for a target field (an
\* empty tab lacks them all) does not halt the load: no stop is caused by it,
\* and in the merged table the stream has all its rows, with the field null
\* in each of them.
C2_SchemaGapDoesNotHalt ==
    \A k \in 1..Len(sheets) : (sheets[k].kind = "ok" /\ Gap(sheets[k]) # {}) =>
        /\ ~\E e \in 1..Len(errors) :
              errors[e].stream = streams[k] /\ errors[e].what = "missing"
        /\ Merged =>
              /\ Len(StreamRowsOf(df_all, streams[k])) = Len(sheets[k].records)
              /\ \A f \in Gap(sheets[k]) :
                    /\ HasCol(df_all, f)
                    /\ \A r \in 1..Len(df_all.rows) :
                          Cell(df_all, df_all.rows[r], cStream) = streams[k]
                              => Cell(df_all, df_all.rows[r], f) = NullOf(f)

\* two headers of the sheet are aliases of the same internal name
TwoAliases(sheet) ==
    /\ sheet.records # <<>>
    /\ \E c1, c2 \in 1..Len(sheet.headers) :
          /\ c1 # c2
          /\ IsAlias(sheet.headers[c1]) /\ IsAlias(sheet.headers[c2])
          /\ TargetOf(sheet.headers[c1]) = TargetOf(sheet.headers[c2])

\* the column of the sheet whose header matches the alias declared first
\* among the aliases of the internal name
FirstAliasColumn(sheet, name) ==
    CHOOSE c \in 1..Len(sheet.headers) :
        /\ IsAlias(sheet.headers[c]) /\ TargetOf(sheet.headers[c]) = name
        /\ \A c2 \in 1..Len(sheet.headers) :
              (IsAlias(sheet.headers[c2]) /\ TargetOf(sheet.headers[c2]) = name)
                  => AliasIndex(sheet.headers[c]) <= AliasIndex(sheet.headers[c2])

ColumnSet(f) == {f.columns[k] : k \in 1..Len(f.columns)}

\* the target schema; the service provider column is named Tech
TargetSchema == TargetFields \cup {cStream}

\* C3 as stated: the column set of the merged table is exactly the target
\* schema, whatever headers the sources had.
C3_Original == Merged => ColumnSet(df_all) = TargetSchema

\* C3 amended: the merged table always has the columns Timestamp, Tech,
\* Service, Price, Payout and Stream, each once; beyond them it has exactly
\* the columns that some loaded stream supplies: PaymentMode only if a loaded
\* sheet has its header, and every other source column (Comments, unmapped
\* headers) passed through; a column that a loaded stream does not supply is
\* null in every row of that stream.
C3_MergedColumns ==
    Merged =>
        LET loaded == {k \in 1..Len(sheets) : Loaded(k)}
        IN  /\ {cTimestamp, cTech, cService, cPrice, cPayout, cStream} \subseteq ColumnSet(df_all)
            /\ Cardinality(ColumnSet(df_all)) = Len(df_all.columns)
            /\ ColumnSet(df_all) =
                  {cPayout, cStream} \cup UNION {Fields(sheets[k]) : k \in loaded}
            /\ \A k \in loaded : \A r \in 1..Len(df_all.rows) : \A c \in 1..Len(df_all.columns) :
                  (/\ Cell(df_all, df_all.rows[r], cStream) = streams[k]
                   /\ df_all.columns[c] \notin Fields(sheets[k]) \cup {cPayout, cStream})
                      => df_all.rows[r][c] = TextNaN

\* the merged table has an unmapped source column, has no PaymentMode column,
\* and a stream without the unmapped column has nulls there
C3_Witness ==
    /\ Merged
    /\ HasCol(df_all, hNotes)
    /\ HasCol(df_all, cComments)
    /\ \E r \in 1..Len(df_all.rows) : Cell(df_all, df_all.rows[r], hNotes) = TextNaN
    /\ \E r \in 1..Len(df_all.rows) : Cell(df_all, df_all.rows[r], hNotes) # TextNaN

RECURSIVE SumLen(_)
SumLen(frames) ==
    IF frames = <<>> THEN 0 ELSE Len(Head(frames).rows) + SumLen(Tail(frames))

\* the cell of record r of a sheet under the header that stands for name
RawCell(sheet, r, name) ==
    sheet.records[r][CHOOSE c \in 1..Len(sheet.headers) : TargetOf(sheet.headers[c]) = name]

\* day and price of the records of a sheet whose Timestamp cell denotes a
\* date, in record order
DatedOf ==
    [sheet \in FetchOutcomes |->
        IF {cTimestamp, cPrice} \subseteq FieldsOf[sheet]
        THEN LET dated == SelectSeq(list([r \in 1..Len(sheet.records) |-> r]),
                                    LAMBDA r : to_datetime(RawCell(sheet, r, cTimestamp)) # NaT)
             IN  list([n \in 1..Len(dated) |->
                         <<to_datetime(RawCell(sheet, dated[n], cTimestamp)),
                           coerce_Price(RawCell(sheet, dated[n], cPrice)).value>>])
        ELSE <<>>] @@ <<>>

\* stream, day and price of the dated records of the loaded streams k..3, in
\* stream order and then record order
RECURSIVE DatedRecords(_)
DatedRecords(k) ==
    IF k > Len(sheets) THEN <<>>
    ELSE (IF Loaded(k)
          THEN LET dated == DatedOf[sheets[k]]
               IN  list([n \in 1..Len(dated) |-> <<streams[k], dated[n][1], dated[n][2]>>])
          ELSE <<>>) \o DatedRecords(k + 1)

\* C4 as stated: with every selector on All and the date range from the
\* first to the last date of the merged table, the filter returns as many
\* rows as the per-stream tables have together.
C4_Original ==
    pc = "rendered" => report.rows = SumLen(dfs)

\* C4 amended: with every selector on All and the date range from the first to
\* the last date of the merged table, the filter returns the rows whose
\* Timestamp is not null, in stream load order and, within a stream, in source
\* row order: as many rows as the per-stream tables have together, less the
\* rows with a null Timestamp.
C4_RoundTrip ==
    pc = "rendered" =>
        LET out == report.df_comb
            nulls == Cardinality({r \in 1..Len(df_all.rows) :
                                    Cell(df_all, df_all.rows[r], cTimestamp) = NaT})
        IN  /\ report.rows = SumLen(dfs) - nulls
            /\ Len(df_all.rows) = SumLen(dfs)
            /\ list([r \in 1..Len(out.rows) |->
                      <<Cell(out, out.rows[r], cStream),
                        Cell(out, out.rows[r], cTimestamp),
                        Cell(out, out.rows[r], cPrice)>>]) = DatedRecords(1)

\* three streams were loaded, one of them with two dated rows and one with a
\* row without a date, and the combined view was rendered
C4_Witness ==
    /\ pc = "rendered"
    /\ Len(dfs) = 3
    /\ report.rows >= 4
    /\ report.rows < SumLen(dfs)
    /\ \E r \in 1..(report.rows - 1) :
          /\ report.df_comb.rows[r][1] = 3
          /\ report.df_comb.rows[r + 1][1] = 1

\* C9 as stated: when every stream's load fails, the cycle ends with an empty
\* report, with zero rows and zero-valued aggregates, and the failures are
\* reported.
C9_Original ==
    (Over /\ Len(errors) = Len(streams)) =>
        /\ report.rendered
        /\ report.rows = 0
        /\ report.total_price = Num(0, 0)
        /\ report.total_payout = Num(0, 0)
        /\ \A k \in 1..Len(streams) : Reported(k)

\* C9 amended: when no stream is loaded, the cycle ends without an exception:
\* the script stops before the merge and renders no report at all (no rows and
\* no aggregates, rather than zero-valued ones), an error having been shown for
\* every stream whose load was attempted; these are all three streams unless a
\* stream with a missing required column stopped the script at its turn.
C9_NoFrameStops ==
    (Over /\ dfs = <<>>) =>
        /\ pc = "stopped"
        /\ ~report.rendered
        /\ df_all = idle
        /\ Len(errors) = Len(sheets)
        /\ \A k \in 1..Len(errors) : errors[k].stream = streams[k]
        /\ Len(errors) = Len(streams) \/ errors[Len(errors)].what = "missing"

\* the three loads raised and the script stopped
C9_Witness ==
    /\ pc = "stopped"
    /\ dfs = <<>>
    /\ Len(errors) = Len(streams)
    /\ \A k \in 1..Len(errors) : errors[k].what = "failed"
    /\ \E k \in 1..Len(sheets) : sheets[k].kind = "ok"
    /\ \E k \in 1..Len(sheets) : sheets[k].kind = "fail"

====
